---- MODULE Spec2Model ----
(***************************************************************************)
(* Acquisition of a compiled js shell: SMShell.run, LockDir, obtain_shell, *)
(* configure_js_shell_compile, configure_binary, sm_compile, verify_binary *)
(* and the shell cache they operate on (src/ocs/spidermonkey/hatch.py,     *)
(* src/ocs/util/utils.py, src/ocs/util/fs_helpers.py).                     *)
(***************************************************************************)
EXTENDS Integers, Sequences, FiniteSets, TLC

\* ------------------------------------------------------------------ bounds
\* Number of operating-system processes; each calls SMShell.run once, as
\* SMShell.main does.  Nothing but the file system outlives a call.
NumProcs == 2

Procs == 1..NumProcs

\* ------------------------------------------------------------ host, inputs
\* platform.system() of the host; fixed for a whole behaviour.
HostSystems == {"Linux", "Darwin", "Windows"}

\* Revisions of the repository.  DefaultTip is the head of the default
\* branch, the only revision matched by the revset "parents() and default".
Revs == {"r1", "r2"}
DefaultTip == "r2"
NoRev == ""

\* Revision names that are no changeset hash, and the changeset hg takes
\* a revision argument for.
SymbolicRevs == {"default"}
hg_resolve(rev) == IF rev = "default" THEN DefaultTip ELSE rev

\* Source trees (build_opts.repo_dir) and the last path component of each.
RepoDirs == {"trees/mozilla-central", "alt/mozilla-central", "trees/mozilla-beta"}
RepoName(d) == IF d = "trees/mozilla-beta" THEN "mozilla-beta" ELSE "mozilla-central"
RepoNames == {RepoName(d) : d \in RepoDirs}
NoRepo == ""
\* DEFAULT_TREES_LOCATION / "mozilla-central"
DefaultRepoDir == "trees/mozilla-central"
\* What --random comes with: no -R, or -R with a tree that is not the default.
RepoArgs == {NoRepo, "alt/mozilla-central"}

\* Exit codes of make and the answers to the "Not on default tip!" prompt.
ExitCodes == {0, 2}
PromptAnswers == {"a", "d", "u", "x"}

NoExc == "none"

\* get_lock_dir_path: <cache root>/shell-<repo_dir.name>-lock, so the lock
\* is identified by the last component of the tree path.
get_lock_dir_path(d) == RepoName(d)

\* CommonShell._name_no_ext = compute_shell_name(build_opts, cset_hash).
\* The option set and the host of the processes of one behaviour are the
\* same, so their shell names differ in the revision part only and a cache
\* entry is identified by the revision string handed to SMShell.
name_no_ext(cset_hash) == cset_hash

\* ----------------------------------------------------------- build options
\* Largest number of flag tokens on one command line.
MaxFlags == 3

\* The flags add_parser_opts registers (besides --random and -R).
Flags == {"--32", "--enable-debug", "--disable-debug", "--enable-optimize",
          "--disable-optimize", "--disable-profiling",
          "--enable-address-sanitizer", "--enable-valgrind",
          "--run-with-valgrind", "--enable-oom-breakpoint",
          "--without-intl-api", "--enable-simulator=arm",
          "--enable-simulator=arm64"}

\* randomizer.options: the flags added through randomize_bool.
RandomizerOptions == {"--32", "--enable-debug", "--disable-debug",
                      "--enable-optimize", "--disable-optimize",
                      "--disable-profiling", "--enable-address-sanitizer",
                      "--enable-valgrind", "--enable-simulator=arm",
                      "--enable-simulator=arm64"}

\* Weights under which every randomizer option can be drawn.
WeightAllPositive(name) ==
  IF name = "--run-with-valgrind" THEN 950 ELSE 500

\* The weight randomize_bool stores for each option, and the probability
\* of --run-with-valgrind in gen_rnd_cfgs.  Probabilities and the results of
\* random.random() are written in thousandths: 500 is 0.5.
Weight(name) ==
  CASE name = "--32" -> 500
    [] name = "--enable-debug" -> 500
    [] name = "--disable-debug" -> 0
    [] name = "--enable-optimize" -> 0
    [] name = "--disable-optimize" -> 100
    [] name = "--disable-profiling" -> 500
    [] name = "--enable-address-sanitizer" -> 300
    [] name = "--enable-valgrind" -> 200
    [] name = "--run-with-valgrind" -> 950
    [] name = "--enable-simulator=arm" -> 300
    [] name = "--enable-simulator=arm64" -> 300

\* Results of random.random(), a float of [0, 1): the smallest, and one
\* that exceeds every weight.
RandomDraws == {0, 999}

\* A chance that is also taken when the draw equals the probability.
chance_or_equal(r, i) == r <= i

\* chance(i) when random.random() returns r.
chance(r, i) == r < i

\* Randomizer.get_rnd_subset: one draw for every option.
get_rnd_subset(draws) ==
  {name \in RandomizerOptions : chance(draws[name], Weight(name))}

\* A parser without the --disable-optimize option.
parse_args_no_disable_opt(tokens, random, repo) ==
  [enable32 |-> "--32" \in tokens,
   enableDbg |-> "--enable-debug" \in tokens,
   disableDbg |-> "--disable-debug" \in tokens,
   enableOpt |-> "--enable-optimize" \in tokens,
   disableOpt |-> FALSE,
   disableProfiling |-> "--disable-profiling" \in tokens,
   enableAddressSanitizer |-> "--enable-address-sanitizer" \in tokens,
   enableValgrind |-> "--enable-valgrind" \in tokens,
   runWithVg |-> "--run-with-valgrind" \in tokens,
   enableOomBreakpoint |-> "--enable-oom-breakpoint" \in tokens,
   enableWithoutIntlApi |-> "--without-intl-api" \in tokens,
   enableSimulatorArm32 |-> "--enable-simulator=arm" \in tokens,
   enableSimulatorArm64 |-> "--enable-simulator=arm64" \in tokens,
   enableRandom |-> random,
   repo_dir |-> repo]

\* parser.parse_args: every flag is a store_true option with default False.
parse_args(tokens, random, repo) ==
  [enable32 |-> "--32" \in tokens,
   enableDbg |-> "--enable-debug" \in tokens,
   disableDbg |-> "--disable-debug" \in tokens,
   enableOpt |-> "--enable-optimize" \in tokens,
   disableOpt |-> "--disable-optimize" \in tokens,
   disableProfiling |-> "--disable-profiling" \in tokens,
   enableAddressSanitizer |-> "--enable-address-sanitizer" \in tokens,
   enableValgrind |-> "--enable-valgrind" \in tokens,
   runWithVg |-> "--run-with-valgrind" \in tokens,
   enableOomBreakpoint |-> "--enable-oom-breakpoint" \in tokens,
   enableWithoutIntlApi |-> "--without-intl-api" \in tokens,
   enableSimulatorArm32 |-> "--enable-simulator=arm" \in tokens,
   enableSimulatorArm64 |-> "--enable-simulator=arm64" \in tokens,
   enableRandom |-> random,
   repo_dir |-> repo]

\* Host facts: platform.machine() and platform.release() values, next to
\* HostSystems for platform.system().
Machines == {"x86_64", "AMD64", "aarch64"}
Releases == {"5.15.0-91-generic", "4.4.0-19041-Microsoft", "23.1.0", "10"}

\* The hosts considered: Linux on x86_64 and aarch64, WSL1, an Intel Mac
\* and Windows.
Platforms ==
  {<<"Linux", "x86_64", "5.15.0-91-generic">>,
   <<"Linux", "aarch64", "5.15.0-91-generic">>,
   <<"Linux", "x86_64", "4.4.0-19041-Microsoft">>,
   <<"Darwin", "x86_64", "23.1.0">>,
   <<"Windows", "AMD64", "10">>}

\* "Microsoft" in platform.release(), over Releases.
ContainsMicrosoft(rel) == rel \in {"4.4.0-19041-Microsoft"}

\* str.lower() over the host names.
Lower(str) ==
  CASE str = "Linux" -> "linux"
    [] str = "Darwin" -> "darwin"
    [] str = "Windows" -> "windows"
    [] str = "AMD64" -> "amd64"
    [] OTHER -> str

\* "-".join(file_name)
RECURSIVE Join(_)
Join(file_name) ==
  IF file_name = <<>> THEN ""
  ELSE IF Len(file_name) = 1 THEN file_name[1]
  ELSE file_name[1] \o "-" \o Join(Tail(file_name))

\* file_name.append(marker) when the flag is set.
Marker(flag, marker) == IF flag THEN <<marker>> ELSE <<>>

\* A shell type that also renders the OS release.
file_name_with_release(build_options, host) ==
  <<"js">> \o <<IF build_options.enable32 THEN "32" ELSE "64">>
    \o <<Lower(host.system), Lower(host.machine), host.release>>

\* A shell type with the word width in front of the debug marker.
file_name_width_first(build_options, host) ==
  <<"js">>
    \o <<IF build_options.enable32 THEN "32" ELSE "64">>
    \o Marker(build_options.enableDbg, "dbg")
    \o Marker(build_options.disableOpt, "optDisabled")
    \o Marker(build_options.disableProfiling, "profDisabled")
    \o Marker(build_options.enableAddressSanitizer, "asan")
    \o Marker(build_options.enableValgrind, "vg")
    \o Marker(build_options.enableOomBreakpoint, "oombp")
    \o Marker(build_options.enableWithoutIntlApi, "intlDisabled")
    \o Marker(build_options.enableSimulatorArm32, "armsim32")
    \o Marker(build_options.enableSimulatorArm64, "armsim64")
    \o <<Lower(host.system), Lower(host.machine)>>

\* A shell type that leaves out the sanitizer marker.
file_name_no_asan(build_options, host) ==
  <<"js">>
    \o Marker(build_options.enableDbg, "dbg")
    \o Marker(build_options.disableOpt, "optDisabled")
    \o <<IF build_options.enable32 THEN "32" ELSE "64">>
    \o Marker(build_options.disableProfiling, "profDisabled")
    \o Marker(build_options.enableValgrind, "vg")
    \o Marker(build_options.enableOomBreakpoint, "oombp")
    \o Marker(build_options.enableWithoutIntlApi, "intlDisabled")
    \o Marker(build_options.enableSimulatorArm32, "armsim32")
    \o Marker(build_options.enableSimulatorArm64, "armsim64")
    \o <<Lower(host.system), Lower(host.machine)>>

\* compute_shell_type: the list file_name before it is joined.
file_name(build_options, host) ==
  <<"js">>
    \o Marker(build_options.enableDbg, "dbg")
    \o Marker(build_options.disableOpt, "optDisabled")
    \o <<IF build_options.enable32 THEN "32" ELSE "64">>
    \o Marker(build_options.disableProfiling, "profDisabled")
    \o Marker(build_options.enableAddressSanitizer, "asan")
    \o Marker(build_options.enableValgrind, "vg")
    \o Marker(build_options.enableOomBreakpoint, "oombp")
    \o Marker(build_options.enableWithoutIntlApi, "intlDisabled")
    \o Marker(build_options.enableSimulatorArm32, "armsim32")
    \o Marker(build_options.enableSimulatorArm64, "armsim64")
    \o <<Lower(host.system), Lower(host.machine)>>

compute_shell_type(build_options, host) == Join(file_name(build_options, host))

\* A shell name without the revision.
compute_shell_name_no_rev(build_options, host, build_rev) ==
  compute_shell_type(build_options, host)

\* compute_shell_name: f"{compute_shell_type(build_options)}-{build_rev}"
compute_shell_name(build_options, host, build_rev) ==
  compute_shell_type(build_options, host) \o "-" \o build_rev

\* A validity check without the three host-independent rules.
are_args_valid_host_only(args, host) ==
  IF host.system = "Darwin" /\ args.enable32
  THEN <<FALSE, "We are no longer going to ship 32-bit Mac binaries.">>
  ELSE <<TRUE, "">>

\* A validity check that knows 32-bit restrictions for Darwin only.
are_args_valid_darwin_only(args, host) ==
  IF args.enableDbg /\ args.disableDbg
  THEN <<FALSE, "Making a debug, non-debug build would be contradictory.">>
  ELSE IF host.system = "Darwin" /\ args.enable32
  THEN <<FALSE, "We are no longer going to ship 32-bit Mac binaries.">>
  ELSE <<TRUE, "">>

\* A validity check that lets the ARM32 simulator into 64-bit builds.
are_args_valid_arm32_any_width(args, host) ==
  IF (args.enableSimulatorArm32 \/ args.enableSimulatorArm64)
       /\ (host.system = "Windows"
            \/ (host.system = "Linux" /\ host.machine = "aarch64"))
  THEN <<FALSE, "Nobody runs the simulators here.">>
  ELSE IF args.enableSimulatorArm64 /\ args.enable32
  THEN <<FALSE, "The 64-bit ARM simulator builds are only for 64-bit binaries.">>
  ELSE <<TRUE, "">>

\* A validity check with the Valgrind rule taken out again.
are_args_valid_valgrind_enabled(args, host) ==
  IF args.runWithVg /\ ~args.enableValgrind
  THEN <<FALSE, "--run-with-valgrind needs --enable-valgrind.">>
  ELSE <<TRUE, "">>

\* A validity check without the rule on 32-bit ASan builds.
are_args_valid_asan_any_width(args, host) ==
  IF args.enableSimulatorArm32 /\ ~args.enable32
  THEN <<FALSE, "The 32-bit ARM simulator builds are only for 32-bit binaries.">>
  ELSE IF args.enableSimulatorArm64 /\ args.enable32
  THEN <<FALSE, "The 64-bit ARM simulator builds are only for 64-bit binaries.">>
  ELSE <<TRUE, "">>

\* are_args_valid: the first rule that applies gives the reason.
are_args_valid(args, host) ==
  IF args.enableDbg /\ args.disableDbg
  THEN <<FALSE, "Making a debug, non-debug build would be contradictory.">>
  ELSE IF args.enableOpt /\ args.disableOpt
  THEN <<FALSE, "Making an optimized, non-optimized build would be contradictory.">>
  ELSE IF ~args.enableDbg /\ args.disableOpt
  THEN <<FALSE, "Making a non-debug, non-optimized build would be kind of silly.">>
  ELSE IF host.system = "Darwin" /\ args.enable32
  THEN <<FALSE, "We are no longer going to ship 32-bit Mac binaries.">>
  ELSE IF host.machine = "aarch64" /\ args.enable32
  THEN <<FALSE, "ARM64 systems cannot seem to compile 32-bit binaries properly.">>
  ELSE IF ContainsMicrosoft(host.release) /\ args.enable32
  THEN <<FALSE, "WSL does not seem to support 32-bit Linux binaries yet.">>
  ELSE IF args.enableValgrind
  THEN <<FALSE, "FIXME: We need to set LD_LIBRARY_PATH first, else Valgrind segfaults.">>
  ELSE IF args.runWithVg /\ ~args.enableValgrind
  THEN <<FALSE, "--run-with-valgrind needs --enable-valgrind.">>
  ELSE IF args.enableAddressSanitizer /\ args.enable32
  THEN <<FALSE, "32-bit ASan builds fail on 18.04 due to https://github.com/google/sanitizers/issues/954.">>
  ELSE IF args.enableAddressSanitizer /\ host.system = "Linux"
            /\ ContainsMicrosoft(host.release)
  THEN <<FALSE, "Linux ASan builds cannot yet work in WSL though there may be workarounds.">>
  ELSE IF args.enableAddressSanitizer /\ host.system = "Windows" /\ args.enable32
  THEN <<FALSE, "ASan is explicitly not supported in 32-bit Windows builds.">>
  ELSE IF host.system = "Windows" /\ args.enableSimulatorArm32
  THEN <<FALSE, "Nobody runs the ARM32 simulators on Windows.">>
  ELSE IF host.system = "Windows" /\ args.enableSimulatorArm64
  THEN <<FALSE, "Nobody runs the ARM64 simulators on Windows.">>
  ELSE IF host.system = "Linux" /\ host.machine = "aarch64" /\ args.enableSimulatorArm32
  THEN <<FALSE, "Nobody runs the ARM32 simulators on ARM64 Linux.">>
  ELSE IF host.system = "Linux" /\ host.machine = "aarch64" /\ args.enableSimulatorArm64
  THEN <<FALSE, "Nobody runs the ARM64 simulators on ARM64 Linux.">>
  ELSE IF args.enableSimulatorArm32 /\ ~args.enable32
  THEN <<FALSE, "The 32-bit ARM simulator builds are only for 32-bit binaries.">>
  ELSE IF args.enableSimulatorArm64 /\ args.enable32
  THEN <<FALSE, "The 64-bit ARM simulator builds are only for 64-bit binaries.">>
  ELSE <<TRUE, "">>

\* A generator that returns its first candidate.
gen_rnd_accepts_any(args, host) == TRUE

\* A generator that returns debug builds only.
gen_rnd_accepts_debug_only(args, host) ==
  are_args_valid(args, host)[1] /\ args.enableDbg

\* gen_rnd_cfgs: the test that ends the while True loop.
gen_rnd_accepts(args, host) == are_args_valid(args, host)[1]

\* gen_rnd_cfgs: --run-with-valgrind is appended when --enable-valgrind was
\* drawn and chance(0.95) holds for the draw vg.
RndArgs(subset, vg) ==
  IF "--enable-valgrind" \in subset /\ chance(vg, Weight("--run-with-valgrind"))
  THEN subset \cup {"--run-with-valgrind"}
  ELSE subset

\* ------------------------------------------------------------ cache entry
\* One directory <cache root>/<shell name>:
\*   dir       the directory exists
\*   bin       the cached binary shell_cache_js_bin_path is a file
\*   busted    records appended to <name>.busted (<<>>: no such file)
\*   meta      <name>.fuzzmanagerconf is a file
\*   objdir    objdir-js exists
\*   compiled  objdir-js/dist/bin/js is a file
\*   ro        objdir-js holds a file with the read-only attribute
Absent == [dir |-> FALSE, bin |-> FALSE, busted |-> <<>>, meta |-> FALSE,
           objdir |-> FALSE, compiled |-> FALSE, ro |-> FALSE]
EmptyDir == [Absent EXCEPT !.dir = TRUE]

\* sys.exc_info()[1] is an exception instance, never an int.
ExcValueIsInt == FALSE

\* handle_rm_readonly_files: the exception that leaves the onerror handler
\* ("handled" if the file were made writable and unlinked).
handle_rm_readonly_files(os) ==
  IF os # "Windows" THEN "AssertionError"
  ELSE IF ExcValueIsInt THEN "handled"
  ELSE "OSError"

\* shutil.rmtree reports an error to onerror when the path is missing
\* (os.lstat fails) or, on Windows, when unlinking a read-only file.
RmTreeError(os, exists, readonly) ==
  (~exists) \/ (os = "Windows" /\ readonly)

\* What a tree can look like after rmtree stopped at a read-only file of
\* objdir-js: that file and its ancestors remain, every other file was
\* either already unlinked or not yet visited (scandir order).
PartialRemovals(e) ==
  { [dir |-> TRUE, bin |-> b, busted |-> m, meta |-> f,
     objdir |-> TRUE, compiled |-> c, ro |-> TRUE] :
       b \in {e.bin, FALSE}, m \in {e.busted, <<>>},
       f \in {e.meta, FALSE}, c \in {e.compiled, FALSE} }

\* shutil.rmtree(shell_cache_dir, onerror=handle_rm_readonly_files):
\* the set of <<entry afterwards, exception raised>>.
RmTreeCacheDir(os, e) ==
  IF RmTreeError(os, e.dir, e.ro) /\ handle_rm_readonly_files(os) # "handled"
  THEN { <<e2, handle_rm_readonly_files(os)>> : e2 \in PartialRemovals(e) }
  ELSE { <<Absent, NoExc>> }

\* A probe that never takes the cache-hit branch.
ObtainBranchNoHit(e) ==
  IF e.busted # <<>> THEN "cachedfail"
  ELSE IF e.dir THEN "purge"
  ELSE "fresh"

\* A probe that ignores the failure marker.
ObtainBranchNoMarker(e) ==
  IF e.bin THEN "hit"
  ELSE IF e.dir THEN "purge"
  ELSE "fresh"

\* The cache probe of obtain_shell: binary first, then marker, then a
\* leftover directory.
ObtainBranch(e) ==
  IF e.bin THEN "hit"
  ELSE IF e.busted # <<>> THEN "cachedfail"
  ELSE IF e.dir THEN "purge"
  ELSE "fresh"

\* An __enter__ that removes the directory it could not create.
LockDirEnterCleansUp(exists) == [raises |-> exists, exists |-> ~exists]

\* An __enter__ with mkdir(exist_ok=True).
LockDirEnterExistOk(exists) == [raises |-> FALSE, exists |-> TRUE]

\* LockDir.__enter__: directory.mkdir() raises when the directory exists.
LockDirEnter(exists) == [raises |-> exists, exists |-> TRUE]

\* An __exit__ that keeps the directory when an exception is in flight.
LockDirExitOnSuccessOnly(exists, e) == IF e = NoExc THEN FALSE ELSE exists

\* LockDir.__exit__: directory.rmdir(), whatever exception is in flight.
LockDirExit(exists, e) == FALSE

\* Whether the build tools can leave a file in objdir-js that os.unlink
\* refuses to remove: the read-only attribute of Windows.  On the other
\* hosts the mode of a file does not hinder its removal.
ReadOnlyChoices(os) == IF os = "Windows" THEN BOOLEAN ELSE {FALSE}

\* A success test that trusts the exit code of make.
ShellWasCompiledByExitCode(compiled, code) == code = 0

\* sm_compile: the shell counts as compiled when shell_compiled_path is a
\* file; the exit code of make (check=False) is not consulted.
ShellWasCompiled(compiled, code) == compiled

\* A retry that goes on for as long as the compiler is killed.
OomRetryWhileKilled(os, compiled, oom, makes) ==
  (~compiled) /\ os \in {"Linux", "Darwin"} /\ oom

\* sm_compile runs make a second time when the first run left no binary
\* and its output shows that the compiler was killed (Linux and Darwin).
OomRetry(os, compiled, oom, makes) ==
  (~compiled) /\ makes = 1 /\ os \in {"Linux", "Darwin"} /\ oom

\* A failure clause that records the failure but leaves the binary.
CleanupKeepsBinary(os, e) ==
  { <<[e EXCEPT !.objdir = FALSE, !.compiled = FALSE, !.ro = FALSE,
                !.busted = Append(@, "handler")], NoExc>> }

\* The except (CalledProcessError, OSError) clause of obtain_shell:
\* rmtree of objdir-js, unlink of the cached binary, append to the marker.
\* The set of <<entry afterwards, exception raised inside the clause>>.
CleanupAfterFailure(os, e) ==
  IF RmTreeError(os, e.objdir, e.ro) /\ handle_rm_readonly_files(os) # "handled"
  THEN { <<[e EXCEPT !.compiled = c], handle_rm_readonly_files(os)>> :
           c \in {e.compiled, FALSE} }
  ELSE { <<[e EXCEPT !.objdir = FALSE, !.compiled = FALSE, !.ro = FALSE,
                     !.bin = FALSE, !.busted = Append(@, "handler")], NoExc>> }

\* The exception classes the two except clauses of obtain_shell catch.
CaughtAsFailure == {"CalledProcessError", "OSError", "FileNotFoundError"}

\* Where an exception raised inside the try block of obtain_shell goes.
AfterRaise(x) ==
  IF x = "KeyboardInterrupt" THEN "handler_ki"
  ELSE IF x \in CaughtAsFailure THEN "handler_os"
  ELSE "unlock"

\* ----------------------------------------------------------- cache root
\* Largest number of ensure_cache_dir calls in one behaviour.
MaxCalls == 2

\* Arguments of ensure_cache_dir: directories, and "" for a false value
\* (None, an empty string), which selects Path.home().
BaseDirs == {".", "home", "tmp"}
BaseArgs == BaseDirs \cup {""}

\* What a path can be.
PathKinds == {"absent", "dir", "file"}
NoPath == <<>>

\* The states of base_dir and base_dir/shell-cache: nothing can be below
\* a base that is no directory.
TreeShapes ==
  {t \in [base_dir : PathKinds, cache_dir : PathKinds] :
     t.base_dir # "dir" => t.cache_dir = "absent"}

\* Path.mkdir(exist_ok=...): os.mkdir, and FileExistsError is swallowed
\* only when exist_ok is set and the path is a directory.
Mkdir(t, exist_ok) ==
  IF t.cache_dir = "dir"
  THEN [raised |-> IF exist_ok THEN NoExc ELSE "FileExistsError", tree |-> t]
  ELSE IF t.cache_dir = "file" THEN [raised |-> "FileExistsError", tree |-> t]
  ELSE IF t.base_dir = "absent" THEN [raised |-> "FileNotFoundError", tree |-> t]
  ELSE IF t.base_dir = "file" THEN [raised |-> "NotADirectoryError", tree |-> t]
  ELSE [raised |-> NoExc, tree |-> [t EXCEPT !.cache_dir = "dir"]]

\* An ensure_cache_dir with a plain mkdir().
ensure_cache_dir_plain_mkdir(base_dir, fs) ==
  LET base == IF base_dir = "" THEN "home" ELSE base_dir
      m == Mkdir(fs[base], FALSE)
  IN [cache_dir |-> IF m.raised = NoExc THEN <<base, "shell-cache">> ELSE NoPath,
      raised |-> m.raised,
      fs |-> [fs EXCEPT ![base] = m.tree]]

\* ensure_cache_dir(base_dir) on the file system fs: the path returned,
\* the exception raised and the file system afterwards.
ensure_cache_dir(base_dir, fs) ==
  LET base == IF base_dir = "" THEN "home" ELSE base_dir
      m == Mkdir(fs[base], TRUE)
  IN [cache_dir |-> IF m.raised = NoExc THEN <<base, "shell-cache">> ELSE NoPath,
      raised |-> m.raised,
      fs |-> [fs EXCEPT ![base] = m.tree]]

\* SMShell.main around run(): from how run() ended ("0": it returned 0,
\* otherwise the class of the exception that left it) to how main ends.
\* except CommonShellError is the only clause; every other exception
\* leaves main as it left run().
main(run_result) ==
  IF run_result = "CommonShellError" THEN "1" ELSE run_result

\* ------------------------------------------------------------ the verifier
\* What file(1) prints for a binary, as the set of the texts looked for that
\* it contains: ELF 64-bit, ELF 32-bit, Mach-O i386, a universal Mach-O of
\* i386 and 64-bit, PE32+ and PE32 for MS Windows, and data.
FileTypes ==
  {{"64-bit"}, {"32-bit"}, {"i386"}, {"i386", "64-bit"}, {"MS Windows"},
   {"MS Windows", "PE32 executable"}, {}}

\* A compiled binary: its file type and what getBuildConfiguration()
\* reports for each parameter queried (true or false).
Binaries ==
  [filetype : FileTypes, debug : BOOLEAN, asan : BOOLEAN, profiling : BOOLEAN,
   arm_simulator : BOOLEAN, arm64_simulator : BOOLEAN]
NoBinary ==
  [filetype |-> {}, debug |-> FALSE, asan |-> FALSE, profiling |-> FALSE,
   arm_simulator |-> FALSE, arm64_simulator |-> FALSE]

\* str() of a bool in an f-string.
Str(b) == IF b THEN "True" ELSE "False"

\* arch_of_binary: "32", "64" or "INVALID", or ValueError.
arch_of_binary(os, filetype) ==
  IF os = "Windows"
  THEN IF "MS Windows" \notin filetype
       THEN [raised |-> TRUE, arch |-> ""]
       ELSE [raised |-> FALSE,
             arch |-> IF "Intel 80386 32-bit" \in filetype
                         \/ "PE32 executable" \in filetype
                      THEN "32" ELSE "64"]
  ELSE IF "32-bit" \in filetype \/ "i386" \in filetype
       THEN IF "64-bit" \in filetype
            THEN [raised |-> TRUE, arch |-> ""]
            ELSE [raised |-> FALSE, arch |-> "32"]
       ELSE IF "64-bit" \in filetype
       THEN [raised |-> FALSE, arch |-> "64"]
       ELSE [raised |-> FALSE, arch |-> "INVALID"]

NoVerdict == [accepted |-> FALSE, error |-> <<>>]
Accepted == [accepted |-> TRUE, error |-> <<>>]
ValueError(msg) == [accepted |-> FALSE, error |-> msg]

\* The checks of verify_binary after the architecture, in the order of the
\* code; the first one that fails raises.  simulators: whether the two
\* simulator checks are made.
verify_reported(simulators, a, binary) ==
  IF binary.debug # a.enableDbg
  THEN ValueError(<<"debug", Str(binary.debug), Str(a.enableDbg)>>)
  ELSE IF binary.asan # a.enableAddressSanitizer
  THEN ValueError(<<"asan", Str(binary.asan), Str(a.enableAddressSanitizer)>>)
  ELSE IF binary.profiling = a.disableProfiling
  THEN ValueError(<<"profiling", Str(binary.profiling), Str(~a.disableProfiling)>>)
  ELSE IF simulators
          /\ (binary.arm_simulator /\ a.enable32) # a.enableSimulatorArm32
  THEN ValueError(<<"arm-simulator", Str(binary.arm_simulator),
                    Str(a.enableSimulatorArm32)>>)
  ELSE IF simulators
          /\ (binary.arm64_simulator /\ ~a.enable32) # a.enableSimulatorArm64
  THEN ValueError(<<"arm64-simulator", Str(binary.arm64_simulator),
                    Str(a.enable32), Str(a.enableSimulatorArm64)>>)
  ELSE Accepted

\* The same with the simulator checks made on every host.
verify_binary_any_machine(host, a, binary) ==
  LET r == arch_of_binary(host.system, binary.filetype)
  IN IF r.raised THEN ValueError(<<"filetype">>)
     ELSE IF r.arch # (IF a.enable32 THEN "32" ELSE "64")
     THEN ValueError(<<"architecture", r.arch, Str(a.enable32)>>)
     ELSE verify_reported(TRUE, a, binary)

\* verify_binary: accepted, or the ValueError with what its message names.
verify_binary(host, a, binary) ==
  LET r == arch_of_binary(host.system, binary.filetype)
  IN IF r.raised THEN ValueError(<<"filetype">>)
     ELSE IF r.arch # (IF a.enable32 THEN "32" ELSE "64")
     THEN ValueError(<<"architecture", r.arch, Str(a.enable32)>>)
     ELSE verify_reported(host.machine = "x86_64", a, binary)

\* ------------------------------------------------------------------ state
VARIABLES
  hostOS,    \* platform.system()
  trees,     \* the source trees that run() is called for
  treeRev,   \* working-directory parent of each source tree
  cache,     \* shell name -> cache entry
  lockDir,   \* lock name -> the lock directory exists
  holder,    \* lock name -> process whose LockDir created it (0: nobody)
  pc,        \* position of each process in run()
  shell,     \* per process: name, update_to_rev, repo_dir of this run
  exc,       \* per process: exception in flight
  result,    \* per process: how the last run() ended
  out,       \* per process: exit code / OOM text of the last make
  obs,       \* per process: what this run() did (history)
  hist       \* shell name -> how obtain_shell calls for it have ended so far:
             \*   "ok" returned, "built" returned after a build, "buildfail"
             \*   configure or compile failed, "rejected" verify_binary
             \*   raised ValueError
VARIABLES
  machine,     \* platform.machine()
  release,     \* platform.release()
  optpc,       \* position in parse_shell_opts and the naming of the shell
  args,        \* the build_options namespace
  valid,       \* what are_args_valid returned for args
  discarded,   \* gen_rnd_cfgs has thrown a candidate away
  shell_name,  \* build_rev and the compute_shell_name result for it
  build_options_str,  \* the tokens of build_options.build_options_str
  rolls,       \* what random.random() returned for each randomizer option
               \* in the round of gen_rnd_cfgs that returned args (<<>>: none)
  repo_arg     \* the directory given with -R to parse_shell_opts ("": none)

VARIABLES
  binary,    \* the binary handed to verify_binary
  verdict    \* what verify_binary made of it (NoVerdict: not called)

verVars == <<binary, verdict>>

VARIABLES
  fsTree,    \* base directory -> what it and its shell-cache are
  ensured    \* the ensure_cache_dir calls so far: argument, whether
             \* shell-cache existed, path returned, exception raised

fsVars == <<fsTree, ensured>>

\* The variables of the acquisition and those of the option handling.
smVars == <<trees, treeRev, cache, lockDir, holder, pc, shell, exc, result, out,
            obs, hist>>
optVars == <<machine, release, optpc, args, valid, discarded, shell_name,
             build_options_str, rolls, repo_arg>>

vars == <<hostOS, trees, treeRev, cache, lockDir, holder, pc, shell, exc,
          result, out, obs, hist, optVars, fsVars, verVars>>

\* The namespace before parse_args has run: every default.
NoArgs == parse_args({}, FALSE, "trees/mozilla-central")
NoName == [build_rev |-> NoRev, name |-> ""]

\* platform.system(), platform.machine(), platform.release() of the host.
Host == [system |-> hostOS, machine |-> machine, release |-> release]

NoShell == [name |-> NoRev, update_to_rev |-> NoRev, repo_dir |-> "trees/mozilla-central"]
NoOut == [code |-> 0, oom |-> FALSE]
NoObs == [branch |-> "none", origin |-> "none", first |-> NoExc, seen |-> {},
          locked |-> FALSE, checkout |-> 0, configure |-> 0, make |-> 0]

ScopePcs == {"gethash", "obtain", "checkout", "mkobjdir", "configure", "make",
             "smcompile", "verify", "envdump", "pageheap", "handler_ki",
             "handler_os", "unlock"}

InitCommon ==
  /\ hostOS \in HostSystems
  /\ treeRev = [d \in RepoDirs |-> DefaultTip]
  /\ cache = [n \in Revs |-> Absent]
  /\ lockDir = [n \in RepoNames |-> FALSE]
  /\ holder = [n \in RepoNames |-> 0]
  /\ pc = [p \in Procs |-> "idle"]
  /\ shell = [p \in Procs |-> NoShell]
  /\ exc = [p \in Procs |-> NoExc]
  /\ result = [p \in Procs |-> "none"]
  /\ out = [p \in Procs |-> NoOut]
  /\ obs = [p \in Procs |-> NoObs]
  /\ hist = [n \in Revs |-> {}]
  /\ optpc = "start"
  /\ args = NoArgs
  /\ valid = <<TRUE, "">>
  /\ discarded = FALSE
  /\ shell_name = NoName
  /\ build_options_str = {}
  /\ rolls = <<>>
  /\ repo_arg = NoRepo
  /\ ensured = <<>>
  /\ verdict = NoVerdict

\* The cache root of the acquisition exists.
CacheRootPresent == [b \in BaseDirs |-> [base_dir |-> "dir", cache_dir |-> "dir"]]

Init ==
  /\ trees = {"trees/mozilla-central"}
  /\ machine = "x86_64"
  /\ release = "5.15.0-91-generic"
  /\ fsTree = CacheRootPresent
  /\ binary = NoBinary
  /\ InitCommon

\* ---------------------------------------------------------------- actions
\* Processes are numbered in the order in which they call run().
IsNextProc(p) ==
  /\ pc[p] = "idle"
  /\ \A q \in Procs : q < p => pc[q] # "idle"

\* A run() that parses its arguments inside the lock scope.
StartInsideScope(p) ==
  /\ IsNextProc(p)
  /\ \E d \in trees :
       /\ ~lockDir[get_lock_dir_path(d)]
       /\ lockDir' = [lockDir EXCEPT ![get_lock_dir_path(d)] = TRUE]
  /\ pc' = [pc EXCEPT ![p] = "done"]
  /\ result' = [result EXCEPT ![p] = "SystemExit"]
  /\ UNCHANGED <<optVars, fsVars, verVars, hostOS, trees, treeRev, cache, holder, shell, exc, out,
                 obs, hist>>

\* SMShell.run with an argv that argparse rejects: parse_args ends the run
\* with SystemExit before anything is created.
Start(p) ==
  /\ IsNextProc(p)
  /\ pc' = [pc EXCEPT ![p] = "done"]
  /\ result' = [result EXCEPT ![p] = "SystemExit"]
  /\ UNCHANGED <<optVars, fsVars, verVars, hostOS, trees, treeRev, cache, lockDir, holder, shell, exc, out,
                 obs, hist>>

\* SMShell.run up to the first statement inside the with: parse_shell_opts,
\* then LockDir(get_lock_dir_path(Path.home(), repo_dir)).__enter__.
\* With a revision the shell is named after it as given; without one the
\* hash is looked up first.  The revisions asked for are those whose cache
\* entries the behaviour follows.
LockEnter(p) ==
  /\ IsNextProc(p)
  /\ \E d \in trees, rev \in Revs \cup SymbolicRevs \cup {NoRev} :
       LET l == get_lock_dir_path(d)
           r == LockDirEnter(lockDir[l])
       IN /\ rev # NoRev => name_no_ext(rev) \in DOMAIN cache
          /\ IF r.raises
             THEN /\ pc' = [pc EXCEPT ![p] = "done"]
                  /\ result' = [result EXCEPT ![p] = "OSError"]
                  /\ shell' = [shell EXCEPT ![p].repo_dir = d]
                  /\ lockDir' = [lockDir EXCEPT ![l] = r.exists]
                  /\ UNCHANGED <<holder, obs>>
             ELSE /\ lockDir' = [lockDir EXCEPT ![l] = r.exists]
                  /\ holder' = [holder EXCEPT ![l] = p]
                  /\ obs' = [obs EXCEPT ![p].locked = TRUE]
                  /\ shell' = [shell EXCEPT ![p] =
                                 [name |-> IF rev # NoRev THEN name_no_ext(rev)
                                           ELSE NoRev,
                                  update_to_rev |-> rev, repo_dir |-> d]]
                  /\ pc' = [pc EXCEPT ![p] = IF rev # NoRev THEN "obtain" ELSE "gethash"]
                  /\ UNCHANGED result
  /\ UNCHANGED <<optVars, fsVars, verVars, hostOS, trees, treeRev, cache, exc, out, hist>>

\* LockDir.__exit__ and the end of run(): 0 is returned after a normal
\* exit of the scope, otherwise the exception goes on to the caller.
LockExit(p) ==
  /\ pc[p] = "unlock"
  /\ LET l == get_lock_dir_path(shell[p].repo_dir)
     IN /\ lockDir' = [lockDir EXCEPT ![l] = LockDirExit(lockDir[l], exc[p])]
        /\ holder' = [holder EXCEPT ![l] = IF lockDir'[l] THEN holder[l] ELSE 0]
  /\ pc' = [pc EXCEPT ![p] = "done"]
  /\ result' = [result EXCEPT ![p] = IF exc[p] = NoExc THEN "0" ELSE exc[p]]
  /\ exc' = [exc EXCEPT ![p] = NoExc]
  /\ out' = [out EXCEPT ![p] = NoOut]
  /\ shell' = [shell EXCEPT ![p] = NoShell]
  /\ obs' = [obs EXCEPT ![p] = [NoObs EXCEPT !.locked = obs[p].locked]]
  /\ UNCHANGED <<optVars, fsVars, verVars, hostOS, trees, treeRev, cache, hist>>

\* hg_helpers.get_repo_hash_and_id(repo_dir)[0], run when no revision was
\* given: the hash of the working directory's parent, after the prompt when
\* the tree is not on the tip of default.
GetRepoHash(p) ==
  /\ pc[p] = "gethash"
  /\ LET d == shell[p].repo_dir
         Fail(x) ==
           /\ exc' = [exc EXCEPT ![p] = x]
           /\ obs' = [obs EXCEPT ![p].origin = "gethash", ![p].first = x]
           /\ pc' = [pc EXCEPT ![p] = "unlock"]
           /\ UNCHANGED <<shell, treeRev>>
         Found(h) ==
           /\ shell' = [shell EXCEPT ![p].name = name_no_ext(h)]
           /\ pc' = [pc EXCEPT ![p] = "obtain"]
           /\ UNCHANGED <<exc, obs>>
     IN \/ \E x \in {"CalledProcessError", "TimeoutExpired", "KeyboardInterrupt"} :
             Fail(x)
        \/ /\ treeRev[d] = DefaultTip
           /\ Found(treeRev[d])
           /\ UNCHANGED treeRev
        \/ /\ treeRev[d] # DefaultTip
           /\ \E a \in PromptAnswers :
                CASE a = "a" -> Fail("SystemExit")
                  [] a = "d" -> /\ treeRev' = [treeRev EXCEPT ![d] = DefaultTip]
                                /\ Found(DefaultTip)
                  [] a = "u" -> /\ Found(treeRev[d])
                                /\ UNCHANGED treeRev
                  [] OTHER -> Fail("ValueError")
  /\ UNCHANGED <<optVars, fsVars, verVars, hostOS, trees, cache, lockDir, holder, result, out, hist>>

\* obtain_shell up to and including shell_cache_dir.mkdir(): the cache
\* probe, the purge of a directory without binary and marker, the creation
\* of the fresh directory.  On Windows a cache hit also runs
\* verify_full_win_pageheap (gflags, check=True).
ObtainProbe(p) ==
  /\ pc[p] = "obtain"
  /\ LET n == shell[p].name
         e == cache[n]
         b == ObtainBranch(e)
         Seen == [obs EXCEPT ![p].branch = b, ![p].seen = hist[n]]
     IN CASE b = "hit" ->
               /\ UNCHANGED cache
               /\ pc' = [pc EXCEPT ![p] = "unlock"]
               /\ \/ /\ exc' = exc
                     /\ obs' = Seen
                     /\ hist' = [hist EXCEPT ![n] = @ \cup {"ok"}]
                  \/ /\ hostOS = "Windows"
                     /\ exc' = [exc EXCEPT ![p] = "CalledProcessError"]
                     /\ obs' = [Seen EXCEPT ![p].origin = "pageheap",
                                            ![p].first = "CalledProcessError"]
                     /\ hist' = hist
          [] b = "cachedfail" ->
               /\ UNCHANGED <<cache, hist>>
               /\ pc' = [pc EXCEPT ![p] = "unlock"]
               /\ exc' = [exc EXCEPT ![p] = "OSError"]
               /\ obs' = [Seen EXCEPT ![p].origin = "cached", ![p].first = "OSError"]
          [] b = "purge" ->
               /\ hist' = hist
               /\ \E r \in RmTreeCacheDir(hostOS, e) :
                    IF r[2] = NoExc
                    THEN /\ cache' = [cache EXCEPT ![n] = EmptyDir]
                         /\ pc' = [pc EXCEPT ![p] = "checkout"]
                         /\ exc' = exc
                         /\ obs' = Seen
                    ELSE /\ cache' = [cache EXCEPT ![n] = r[1]]
                         /\ pc' = [pc EXCEPT ![p] = "unlock"]
                         /\ exc' = [exc EXCEPT ![p] = r[2]]
                         /\ obs' = [Seen EXCEPT ![p].origin = "purge", ![p].first = r[2]]
          [] OTHER ->
               /\ hist' = hist
               /\ cache' = [cache EXCEPT ![n] = EmptyDir]
               /\ pc' = [pc EXCEPT ![p] = "checkout"]
               /\ exc' = exc
               /\ obs' = Seen
  /\ UNCHANGED <<optVars, fsVars, verVars, hostOS, trees, treeRev, lockDir, holder, shell, result, out>>

\* An exception x leaves step st of the try block of obtain_shell.
Raise(p, st, x) ==
  /\ exc' = [exc EXCEPT ![p] = x]
  /\ pc' = [pc EXCEPT ![p] = AfterRaise(x)]

\* hg update -C -r <update_to_rev> (check=True, timeout=9999), skipped when
\* no revision was given.
Checkout(p) ==
  /\ pc[p] = "checkout"
  /\ IF shell[p].update_to_rev = NoRev
     THEN /\ pc' = [pc EXCEPT ![p] = "mkobjdir"]
          /\ UNCHANGED <<exc, obs, treeRev>>
     ELSE \/ /\ treeRev' = [treeRev EXCEPT ![shell[p].repo_dir] =
                                             hg_resolve(shell[p].update_to_rev)]
             /\ pc' = [pc EXCEPT ![p] = "mkobjdir"]
             /\ obs' = [obs EXCEPT ![p].checkout = @ + 1]
             /\ exc' = exc
          \/ \E x \in {"CalledProcessError", "TimeoutExpired", "KeyboardInterrupt"} :
               /\ Raise(p, "checkout", x)
               /\ obs' = [obs EXCEPT ![p].checkout = @ + 1,
                                     ![p].origin = "checkout", ![p].first = x]
               /\ treeRev' = treeRev
  /\ hist' = hist
  /\ UNCHANGED <<optVars, fsVars, verVars, hostOS, trees, cache, lockDir, holder, shell, result, out>>

\* configure_js_shell_compile up to configure_binary: objdir-js is created
\* and, for old revisions on a host other than Windows, autoconf 2.13 runs.
MkObjdir(p) ==
  /\ pc[p] = "mkobjdir"
  /\ LET n == shell[p].name
     IN IF cache[n].objdir \/ ~cache[n].dir
        THEN /\ Raise(p, "mkobjdir", "OSError")
             /\ obs' = [obs EXCEPT ![p].origin = "mkobjdir", ![p].first = "OSError"]
             /\ cache' = cache
        ELSE /\ cache' = [cache EXCEPT ![n].objdir = TRUE]
             /\ \/ /\ pc' = [pc EXCEPT ![p] = "configure"]
                   /\ UNCHANGED <<exc, obs>>
                \/ /\ hostOS # "Windows"
                   /\ \E x \in {"CalledProcessError", "RuntimeError", "KeyboardInterrupt"} :
                        /\ x = "RuntimeError" => hostOS = "Linux"
                        /\ Raise(p, "autoconf", x)
                        /\ obs' = [obs EXCEPT ![p].origin = "autoconf", ![p].first = x]
  /\ hist' = hist
  /\ UNCHANGED <<optVars, fsVars, verVars, hostOS, trees, treeRev, lockDir, holder, shell, result, out>>

\* configure_binary: the configure script runs in objdir-js (check=True).
\* On CalledProcessError its output is appended to the marker before the
\* error is re-raised; a missing toolchain raises FileNotFoundError before
\* configure is started.
ConfigureBinary(p) ==
  /\ pc[p] = "configure"
  /\ LET n == shell[p].name
     IN \/ \E r \in ReadOnlyChoices(hostOS) :
             /\ cache' = [cache EXCEPT ![n].ro = r]
             /\ obs' = [obs EXCEPT ![p].configure = @ + 1]
             /\ pc' = [pc EXCEPT ![p] = "make"]
             /\ exc' = exc
        \/ \E r \in ReadOnlyChoices(hostOS) :
             /\ cache' = [cache EXCEPT ![n].ro = r,
                                       ![n].busted = Append(@, "configure")]
             /\ obs' = [obs EXCEPT ![p].configure = @ + 1, ![p].origin = "configure",
                                   ![p].first = "CalledProcessError"]
             /\ Raise(p, "configure", "CalledProcessError")
        \/ /\ cache' = cache
           /\ obs' = [obs EXCEPT ![p].origin = "configure",
                                 ![p].first = "FileNotFoundError"]
           /\ Raise(p, "configure", "FileNotFoundError")
        \/ \E r \in ReadOnlyChoices(hostOS) :
             /\ cache' = [cache EXCEPT ![n].ro = r]
             /\ obs' = [obs EXCEPT ![p].configure = @ + 1, ![p].origin = "configure",
                                   ![p].first = "KeyboardInterrupt"]
             /\ Raise(p, "configure", "KeyboardInterrupt")
  /\ UNCHANGED <<optVars, fsVars, verVars, hostOS, trees, treeRev, lockDir, holder, shell, result, out,
                 hist>>

\* One subprocess.run of make in sm_compile (check=False): any exit code,
\* with or without a binary in objdir-js/dist/bin, with or without the
\* compiler-killed text in the output.
Make(p) ==
  /\ pc[p] = "make"
  /\ LET n == shell[p].name
     IN \/ \E code \in ExitCodes, built \in BOOLEAN, oom \in BOOLEAN, r \in ReadOnlyChoices(hostOS) :
             /\ cache' = [cache EXCEPT ![n].compiled = @ \/ built, ![n].ro = @ \/ r]
             /\ out' = [out EXCEPT ![p] = [code |-> code, oom |-> oom]]
             /\ obs' = [obs EXCEPT ![p].make = @ + 1]
             /\ pc' = [pc EXCEPT ![p] = "smcompile"]
             /\ exc' = exc
        \/ \E built \in BOOLEAN, r \in ReadOnlyChoices(hostOS) :
             /\ cache' = [cache EXCEPT ![n].compiled = @ \/ built, ![n].ro = @ \/ r]
             /\ out' = out
             /\ obs' = [obs EXCEPT ![p].make = @ + 1, ![p].origin = "make",
                                   ![p].first = "KeyboardInterrupt"]
             /\ Raise(p, "make", "KeyboardInterrupt")
  /\ UNCHANGED <<optVars, fsVars, verVars, hostOS, trees, treeRev, lockDir, holder, shell, result, hist>>

\* The rest of sm_compile: retry once after an out-of-memory kill, then
\* copy the binary into the cache entry, or append the output of make to
\* the marker and raise OSError.
SmCompile(p) ==
  /\ pc[p] = "smcompile"
  /\ LET n == shell[p].name
         e == cache[n]
     IN IF OomRetry(hostOS, e.compiled, out[p].oom, obs[p].make)
        THEN /\ pc' = [pc EXCEPT ![p] = "make"]
             /\ UNCHANGED <<cache, exc, obs>>
        ELSE IF ShellWasCompiled(e.compiled, out[p].code)
        THEN /\ cache' = [cache EXCEPT ![n].bin = TRUE]
             /\ pc' = [pc EXCEPT ![p] = "verify"]
             /\ UNCHANGED <<exc, obs>>
        ELSE /\ cache' = [cache EXCEPT ![n].busted = Append(@, "compile")]
             /\ obs' = [obs EXCEPT ![p].origin = "make", ![p].first = "OSError"]
             /\ Raise(p, "make", "OSError")
  /\ UNCHANGED <<optVars, fsVars, verVars, hostOS, trees, treeRev, lockDir, holder, shell, result, out,
                 hist>>

\* verify_binary: ValueError when the binary is not what was asked for,
\* CalledProcessError from file(1), TimeoutExpired from a query of the
\* binary.
VerifyBinary(p) ==
  /\ pc[p] = "verify"
  /\ \/ /\ pc' = [pc EXCEPT ![p] = "envdump"]
        /\ UNCHANGED <<exc, obs>>
     \/ \E x \in {"ValueError", "CalledProcessError", "TimeoutExpired",
                  "KeyboardInterrupt"} :
          /\ Raise(p, "verify", x)
          /\ obs' = [obs EXCEPT ![p].origin = "verify", ![p].first = x]
  /\ hist' = IF exc'[p] = "ValueError"
             THEN [hist EXCEPT ![shell[p].name] = @ \cup {"rejected"}] ELSE hist
  /\ UNCHANGED <<optVars, fsVars, verVars, hostOS, trees, treeRev, cache, lockDir, holder, shell, result,
                 out>>

\* env_dump writes <name>.fuzzmanagerconf unless it is a file already; then
\* obtain_shell returns, on Windows after verify_full_win_pageheap.
EnvDump(p) ==
  /\ pc[p] = "envdump"
  /\ LET n == shell[p].name
     IN \/ /\ cache' = [cache EXCEPT ![n].meta = TRUE]
           /\ pc' = [pc EXCEPT ![p] = IF hostOS = "Windows" THEN "pageheap" ELSE "unlock"]
           /\ UNCHANGED <<exc, obs>>
        \/ \E m \in {cache[n].meta, TRUE} :
             /\ cache' = [cache EXCEPT ![n].meta = m]
             /\ obs' = [obs EXCEPT ![p].origin = "envdump",
                                   ![p].first = "KeyboardInterrupt"]
             /\ Raise(p, "envdump", "KeyboardInterrupt")
  /\ hist' = IF pc'[p] = "unlock"
             THEN [hist EXCEPT ![shell[p].name] = @ \cup {"ok", "built"}] ELSE hist
  /\ UNCHANGED <<optVars, fsVars, verVars, hostOS, trees, treeRev, lockDir, holder, shell, result, out>>

\* verify_full_win_pageheap after a build (inside the try block).
Pageheap(p) ==
  /\ pc[p] = "pageheap"
  /\ \/ /\ pc' = [pc EXCEPT ![p] = "unlock"]
        /\ UNCHANGED <<exc, obs>>
     \/ \E x \in {"CalledProcessError", "KeyboardInterrupt"} :
          /\ Raise(p, "pageheap", x)
          /\ obs' = [obs EXCEPT ![p].origin = "pageheap", ![p].first = x]
  /\ hist' = IF pc'[p] = "unlock"
             THEN [hist EXCEPT ![shell[p].name] = @ \cup {"ok", "built"}] ELSE hist
  /\ UNCHANGED <<optVars, fsVars, verVars, hostOS, trees, treeRev, cache, lockDir, holder, shell, result,
                 out>>

\* except KeyboardInterrupt: rmtree of the whole entry, then re-raise.  An
\* exception of the onerror handler replaces the KeyboardInterrupt.
HandlerInterrupt(p) ==
  /\ pc[p] = "handler_ki"
  /\ LET n == shell[p].name
     IN \E r \in RmTreeCacheDir(hostOS, cache[n]) :
          /\ cache' = [cache EXCEPT ![n] = r[1]]
          /\ exc' = [exc EXCEPT ![p] = IF r[2] = NoExc THEN @ ELSE r[2]]
  /\ pc' = [pc EXCEPT ![p] = "unlock"]
  /\ hist' = hist
  /\ UNCHANGED <<optVars, fsVars, verVars, hostOS, trees, treeRev, lockDir, holder, shell, result, out,
                 obs>>

\* except (CalledProcessError, OSError): clean up, record, re-raise.  An
\* exception of the onerror handler ends the clause at once and replaces
\* the exception being handled.
HandlerFailure(p) ==
  /\ pc[p] = "handler_os"
  /\ LET n == shell[p].name
     IN \E r \in CleanupAfterFailure(hostOS, cache[n]) :
          /\ cache' = [cache EXCEPT ![n] = r[1]]
          /\ exc' = [exc EXCEPT ![p] = IF r[2] = NoExc THEN @ ELSE r[2]]
  /\ pc' = [pc EXCEPT ![p] = "unlock"]
  /\ hist' = IF obs[p].origin \in {"configure", "make"}
             THEN [hist EXCEPT ![shell[p].name] = @ \cup {"buildfail"}] ELSE hist
  /\ UNCHANGED <<optVars, fsVars, verVars, hostOS, trees, treeRev, lockDir, holder, shell, result, out,
                 obs>>

\* The process is killed inside the scope (SIGKILL, power loss): no
\* handler and no __exit__ runs, the files stay as they are.
Kill(p) ==
  /\ pc[p] \in ScopePcs
  /\ pc' = [pc EXCEPT ![p] = "killed"]
  /\ result' = [result EXCEPT ![p] = "killed"]
  /\ exc' = [exc EXCEPT ![p] = NoExc]
  /\ out' = [out EXCEPT ![p] = NoOut]
  /\ shell' = [shell EXCEPT ![p] = NoShell]
  /\ obs' = [obs EXCEPT ![p] = [NoObs EXCEPT !.locked = obs[p].locked]]
  /\ UNCHANGED <<optVars, fsVars, verVars, hostOS, trees, treeRev, cache, lockDir, holder, hist>>

Next ==
  \E p \in Procs :
    \/ Start(p)
    \/ LockEnter(p)
    \/ GetRepoHash(p)
    \/ ObtainProbe(p)
    \/ Checkout(p)
    \/ MkObjdir(p)
    \/ ConfigureBinary(p)
    \/ Make(p)
    \/ SmCompile(p)
    \/ VerifyBinary(p)
    \/ EnvDump(p)
    \/ Pageheap(p)
    \/ HandlerInterrupt(p)
    \/ HandlerFailure(p)
    \/ LockExit(p)
    \/ Kill(p)

Spec == Init /\ [][Next]_vars

\* Acquisitions on two source trees, checked out at different places,
\* that share the cache root.
InitTrees ==
  /\ trees = {"trees/mozilla-central", "alt/mozilla-central"}
  /\ machine = "x86_64"
  /\ release = "5.15.0-91-generic"
  /\ fsTree = CacheRootPresent
  /\ binary = NoBinary
  /\ InitCommon

SpecTrees == InitTrees /\ [][Next]_vars

\* Two trees with different names, and so with different lock directories,
\* that share the cache root.
InitNames ==
  /\ trees = {"trees/mozilla-central", "trees/mozilla-beta"}
  /\ machine = "AMD64"
  /\ release = "10"
  /\ fsTree = CacheRootPresent
  /\ binary = NoBinary
  /\ InitCommon
  /\ hostOS = "Windows"

SpecNames == InitNames /\ [][Next]_vars

\* Acquisitions whose -r argument may be the branch name default.
InitRevNames ==
  /\ hostOS = "Windows"
  /\ trees = {"trees/mozilla-central"}
  /\ machine = "x86_64"
  /\ release = "5.15.0-91-generic"
  /\ fsTree = CacheRootPresent
  /\ binary = NoBinary
  /\ treeRev \in [RepoDirs -> {DefaultTip}]
  /\ cache = [n \in Revs \cup SymbolicRevs |-> Absent]
  /\ hist = [n \in Revs \cup SymbolicRevs |-> {}]
  /\ lockDir = [n \in RepoNames |-> FALSE]
  /\ holder = [n \in RepoNames |-> 0]
  /\ pc = [p \in Procs |-> "idle"]
  /\ shell = [p \in Procs |-> NoShell]
  /\ exc = [p \in Procs |-> NoExc]
  /\ result = [p \in Procs |-> "none"]
  /\ out = [p \in Procs |-> NoOut]
  /\ obs = [p \in Procs |-> NoObs]
  /\ optpc = "start"
  /\ args = NoArgs
  /\ valid = <<TRUE, "">>
  /\ discarded = FALSE
  /\ shell_name = NoName
  /\ build_options_str = {}
  /\ rolls = <<>>
  /\ repo_arg = NoRepo
  /\ ensured = <<>>
  /\ verdict = NoVerdict

SpecRevNames == InitRevNames /\ [][Next]_vars

\* ------------------------------------------------- option handling, naming
\* Revisions handed to compute_shell_name.
BuildRevs == {"abc123", "r1"}

\* Command lines of at most MaxFlags flag tokens.
CommandLines == {t \in SUBSET Flags : Cardinality(t) <= MaxFlags}

InitOpts ==
  /\ trees = {"trees/mozilla-central"}
  /\ machine \in Machines
  /\ release \in Releases
  /\ fsTree = CacheRootPresent
  /\ binary = NoBinary
  /\ InitCommon
  /\ <<hostOS, machine, release>> \in Platforms

\* parse_shell_opts without --random: the namespace is parsed and
\* are_args_valid is consulted for a warning only.
ParseShellOpts ==
  /\ optpc = "start"
  /\ \E tokens \in CommandLines, repo \in trees :
       /\ args' = parse_args(tokens, FALSE, repo)
       /\ build_options_str' = tokens
       /\ valid' = are_args_valid(args', Host)
       /\ repo_arg' = repo
  /\ optpc' = "parsed"
  /\ UNCHANGED <<hostOS, smVars, fsVars, verVars, machine, release, discarded, shell_name, rolls>>

\* parse_shell_opts with --random, with or without -R: the namespace
\* parsed from the command line is dropped and gen_rnd_cfgs is entered.
ParseRandom ==
  /\ optpc = "start"
  /\ optpc' = "rnd"
  /\ repo_arg' \in RepoArgs
  /\ UNCHANGED <<hostOS, smVars, fsVars, verVars, machine, release, args, valid, discarded,
                 shell_name, build_options_str, rolls>>

\* One round of the while True loop of gen_rnd_cfgs: a subset is drawn, a
\* valid candidate is returned, any other is dropped and the loop goes on.
\* The candidate is parsed from the drawn flags alone, so its repo_dir is
\* None and parse_shell_opts sets the default tree.
GenRndCfgs ==
  /\ optpc = "rnd"
  /\ \E draws \in [RandomizerOptions -> RandomDraws], vg \in RandomDraws :
       LET rnd_args == get_rnd_subset(draws)
           build_options == parse_args(RndArgs(rnd_args, vg), FALSE,
                                       DefaultRepoDir)
       IN IF gen_rnd_accepts(build_options, Host)
          THEN /\ args' = [build_options EXCEPT !.enableRandom = TRUE]
               /\ build_options_str' = RndArgs(rnd_args, vg)
               /\ rolls' = draws
               /\ optpc' = "parsed"
               /\ UNCHANGED discarded
          ELSE /\ discarded' = TRUE
               /\ UNCHANGED <<args, build_options_str, rolls, optpc>>
  /\ UNCHANGED <<hostOS, smVars, fsVars, verVars, machine, release, valid, shell_name,
                 repo_arg>>

\* CommonShell.__init__: the shell is named.
ComputeShellName ==
  /\ optpc = "parsed"
  /\ \E build_rev \in BuildRevs :
       shell_name' = [build_rev |-> build_rev,
                      name |-> compute_shell_name(args, Host, build_rev)]
  /\ optpc' = "named"
  /\ UNCHANGED <<hostOS, smVars, fsVars, verVars, machine, release, args, valid, discarded,
                 build_options_str, rolls, repo_arg>>

NextOpts ==
  \/ ParseShellOpts
  \/ ParseRandom
  \/ GenRndCfgs
  \/ ComputeShellName

SpecOpts == InitOpts /\ [][NextOpts]_vars

\* The round of gen_rnd_cfgs in which every number drawn exceeds every
\* weight, no option is selected and the default option set is returned if
\* it is valid.  Every weight is below 1, so each round is such a round
\* with a probability above 0 that does not depend on the rounds before:
\* with probability 1 such a round comes if the loop goes on.
ReturnsDefault ==
  /\ optpc = "rnd"
  /\ LET draws == [name \in RandomizerOptions |-> 999]
         build_options == parse_args(RndArgs(get_rnd_subset(draws), 999), FALSE,
                                     DefaultRepoDir)
     IN /\ gen_rnd_accepts(build_options, Host)
        /\ args' = [build_options EXCEPT !.enableRandom = TRUE]
        /\ build_options_str' = RndArgs(get_rnd_subset(draws), 999)
        /\ rolls' = draws
        /\ optpc' = "parsed"
  /\ UNCHANGED <<hostOS, smVars, fsVars, verVars, machine, release, valid, shell_name,
                 repo_arg, discarded>>

\* parse_shell_opts called with --random, under fair draws.
NextRnd ==
  \/ ParseRandom
  \/ GenRndCfgs
  \/ ComputeShellName

SpecRndFair == InitOpts /\ [][NextRnd]_vars /\ WF_vars(ReturnsDefault)

\* ------------------------------------------------------- the cache root
InitFs ==
  /\ trees = {"trees/mozilla-central"}
  /\ machine = "x86_64"
  /\ release = "5.15.0-91-generic"
  /\ fsTree \in [BaseDirs -> TreeShapes]
  /\ binary = NoBinary
  /\ InitCommon

\* A call of ensure_cache_dir, as get_lock_dir_path and shell_cache_dir
\* make it.
EnsureCacheDir ==
  /\ Len(ensured) < MaxCalls
  /\ \E base_dir \in BaseArgs :
       LET r == ensure_cache_dir(base_dir, fsTree)
           base == IF base_dir = "" THEN "home" ELSE base_dir
       IN /\ fsTree' = r.fs
          /\ ensured' = Append(ensured,
                               [base_dir |-> base_dir,
                                existed |-> fsTree[base].cache_dir,
                                cache_dir |-> r.cache_dir,
                                raised |-> r.raised])
  /\ UNCHANGED <<hostOS, smVars, optVars, verVars>>

\* Somebody removes the empty shell-cache directory of a base.
RmdirCacheDir ==
  /\ \E base \in BaseDirs :
       /\ fsTree[base].cache_dir = "dir"
       /\ fsTree' = [fsTree EXCEPT ![base].cache_dir = "absent"]
  /\ UNCHANGED <<hostOS, smVars, optVars, verVars, ensured>>

NextFs ==
  \/ EnsureCacheDir
  \/ RmdirCacheDir

SpecFs == InitFs /\ [][NextFs]_vars

\* ------------------------------------------------------- verification
\* The options verify_binary looks at.
VerifiedFlags == {"--32", "--enable-debug", "--enable-address-sanitizer",
                  "--disable-profiling", "--enable-simulator=arm",
                  "--enable-simulator=arm64"}

\* Any binary on any of the hosts.
InitVerify ==
  /\ trees = {"trees/mozilla-central"}
  /\ machine \in Machines
  /\ release \in Releases
  /\ fsTree = CacheRootPresent
  /\ binary \in Binaries
  /\ InitCommon
  /\ <<hostOS, machine, release>> \in Platforms

\* verify_binary for a shell of some build options.
VerifyBinaryCall ==
  /\ verdict = NoVerdict
  /\ \E tokens \in SUBSET VerifiedFlags, repo \in trees :
       /\ args' = parse_args(tokens, FALSE, repo)
       /\ verdict' = verify_binary(Host, args', binary)
  /\ UNCHANGED <<hostOS, smVars, fsVars, binary, machine, release, optpc, valid,
                 discarded, shell_name, build_options_str, rolls, repo_arg>>

NextVerify == VerifyBinaryCall

SpecVerify == InitVerify /\ [][NextVerify]_vars

\* ----------------------------------------------------------- properties
\* The process is alive between LockDir.__enter__ and LockDir.__exit__.
Inside(p) == pc[p] \in ScopePcs

\* The call of obtain_shell by p has gone through the cache probe.
Probed(p) == obs[p].branch # "none"

NoToolRun(p) ==
  obs[p].checkout = 0 /\ obs[p].configure = 0 /\ obs[p].make = 0

\* C1: once an obtain_shell call for a shell name has returned, every later
\* obtain_shell call for that name leaves through the cache-hit branch and
\* starts neither hg update nor configure nor make; a call that builds and
\* returns has run configure once and make once or twice.  So the build
\* runs once over a successful call and the call after it.
C1_CacheIdempotence ==
  \A p \in Procs :
    /\ (Probed(p) /\ "ok" \in obs[p].seen) =>
         /\ obs[p].branch = "hit"
         /\ NoToolRun(p)
         /\ pc[p] = "unlock"
         /\ cache[shell[p].name].bin
    /\ (pc[p] = "unlock" /\ exc[p] = NoExc /\ obs[p].branch \in {"fresh", "purge"}) =>
         /\ obs[p].configure = 1
         /\ obs[p].make \in {1, 2}

\* A second call hits the cache of a shell that an earlier call built.
C1_Witness ==
  \E p \in Procs :
    /\ "built" \in obs[p].seen
    /\ obs[p].branch = "hit"
    /\ pc[p] = "unlock"
    /\ exc[p] = NoExc

C3_NoBinaryWithMarker ==
  \A n \in Revs : ~(cache[n].bin /\ cache[n].busted # <<>>)

\* The failure clause has run for a call whose binary had already been
\* copied into the entry (the error came after sm_compile).
C3_Witness ==
  \E p \in Procs :
    /\ pc[p] = "unlock"
    /\ obs[p].origin \in {"verify", "pageheap"}
    /\ obs[p].first = "CalledProcessError"
    /\ cache[shell[p].name].busted # <<>>

\* C4: at most one live process is inside the LockDir scope of a lock
\* directory, and a process that finds the lock directory present fails at
\* once with OSError, changing nothing, whoever created the directory.
C4_Mutex ==
  \A p, q \in Procs :
    (p # q /\ Inside(p) /\ Inside(q)) =>
       get_lock_dir_path(shell[p].repo_dir) # get_lock_dir_path(shell[q].repo_dir)

C4_FailFast ==
  \A p \in Procs :
    (pc[p] = "idle" /\ pc'[p] # "idle" /\ result'[p] # "SystemExit") =>
       \/ /\ pc'[p] = "done"
          /\ result'[p] = "OSError"
          /\ \E l \in RepoNames : lockDir[l]
          /\ lockDir' = lockDir
          /\ holder' = holder
          /\ cache' = cache
       \/ /\ Inside(p)'
          /\ ~lockDir[get_lock_dir_path(shell'[p].repo_dir)]
          /\ lockDir'[get_lock_dir_path(shell'[p].repo_dir)]
          /\ holder'[get_lock_dir_path(shell'[p].repo_dir)] = p

C5_LockReleased ==
  \A p \in Procs :
    (pc[p] = "done" /\ obs[p].locked) =>
       \A l \in RepoNames : holder[l] # p

\* A run() that created the lock has ended with an exception.
C5_Witness ==
  \E p \in Procs :
    /\ pc[p] = "done"
    /\ obs[p].locked
    /\ result[p] \in {"KeyboardInterrupt", "SystemExit", "ValueError", "OSError",
                      "CalledProcessError"}

\* C6: when the probe finds the entry directory with neither binary nor
\* marker, it leaves an empty entry directory behind and goes on to the
\* build.
C6_InterruptedRecovery ==
  [][ \A p \in Procs :
        (pc[p] = "obtain" /\ pc'[p] \notin {"obtain", "killed"}
           /\ ObtainBranch(cache[shell[p].name]) = "purge") =>
          /\ cache'[shell[p].name] = EmptyDir
          /\ pc'[p] = "checkout"
          /\ exc'[p] = NoExc ]_vars

\* C7: after verify_binary has rejected the binary, obtain_shell leaves the
\* entry without binary and without objdir-js but with the marker, and no
\* later call takes the cache-hit branch for that shell name.
C7_VerificationCleanup ==
  \A p \in Procs :
    /\ (pc[p] = "unlock" /\ obs[p].origin = "verify" /\ obs[p].first = "ValueError") =>
         /\ ~cache[shell[p].name].bin
         /\ ~cache[shell[p].name].objdir
         /\ cache[shell[p].name].busted # <<>>
    /\ (Probed(p) /\ "rejected" \in obs[p].seen) => obs[p].branch # "hit"

\* An entry as obtain_shell may leave it according to C8.
Consistent(e) ==
  \/ ~e.dir
  \/ e.busted # <<>> /\ ~e.bin
  \/ e.bin /\ e.meta /\ e.busted = <<>>

\* C8: whenever obtain_shell ends by raising, the entry is absent, or has
\* the marker and no binary, or has the binary with its metadata and no
\* marker.
C8_ConsistentAfterFailure ==
  \A p \in Procs :
    (pc[p] = "unlock" /\ Probed(p) /\ exc[p] # NoExc) =>
       Consistent(cache[shell[p].name])

\* C9: after a KeyboardInterrupt in the try block of obtain_shell the entry
\* directory is gone and KeyboardInterrupt is what obtain_shell raises.
C9_InterruptCleanup ==
  \A p \in Procs :
    (pc[p] = "unlock" /\ Probed(p) /\ obs[p].first = "KeyboardInterrupt") =>
       /\ cache[shell[p].name] = Absent
       /\ exc[p] = "KeyboardInterrupt"

C11_BuildFailureCleanup ==
  \A p \in Procs :
    LET e == cache[shell[p].name]
    IN (pc[p] = "unlock" /\ obs[p].origin \in {"configure", "make"}
          /\ obs[p].first \in {"CalledProcessError", "OSError"}) =>
         /\ e.dir
         /\ ~e.objdir
         /\ ~e.bin
         /\ e.busted # <<>>
         /\ e.busted[Len(e.busted)] = "handler"
         /\ exc[p] = obs[p].first

\* C12: when hg update has failed with CalledProcessError, obtain_shell
\* ends with the marker written and the CalledProcessError re-raised (so
\* that the next probe finds the marker).
C12_CheckoutFailureRecorded ==
  \A p \in Procs :
    (pc[p] = "unlock" /\ obs[p].origin = "checkout"
       /\ obs[p].first = "CalledProcessError") =>
      /\ cache[shell[p].name].busted # <<>>
      /\ exc[p] = "CalledProcessError"

Named == optpc = "named"
Parsed == optpc \in {"parsed", "named"}

\* The fields of a shell name in a stated order: js, the option markers
\* with the word width at position `width` among them, host OS, CPU
\* architecture, revision.
StatedFields(a, widthFirst) ==
  LET w == <<IF a.enable32 THEN "32" ELSE "64">>
      front == Marker(a.enableDbg, "dbg") \o Marker(a.disableOpt, "optDisabled")
      back == Marker(a.disableProfiling, "profDisabled")
                \o Marker(a.enableAddressSanitizer, "asan")
                \o Marker(a.enableValgrind, "vg")
                \o Marker(a.enableOomBreakpoint, "oombp")
                \o Marker(a.enableWithoutIntlApi, "intlDisabled")
                \o Marker(a.enableSimulatorArm32, "armsim32")
                \o Marker(a.enableSimulatorArm64, "armsim64")
  IN <<"js">> \o (IF widthFirst THEN w \o front ELSE front \o w) \o back
       \o <<Lower(hostOS), Lower(machine), shell_name.build_rev>>

ScenarioA ==
  /\ Named
  /\ args = parse_args({"--enable-debug", "--disable-optimize"}, FALSE, args.repo_dir)
  /\ hostOS = "Linux"
  /\ machine = "x86_64"
  /\ shell_name.build_rev = "abc123"

\* C14: the shell name is the shell type, a '-' and the revision, the type
\* starting with js and ending with the lower-cased host OS and CPU
\* architecture; for --enable-debug --disable-optimize, abc123 and
\* (Linux, x86_64) it is js-dbg-optDisabled-64-linux-x86_64-abc123.
C14_ShellNameScenarioA ==
  /\ Named =>
       /\ shell_name.name = compute_shell_type(args, Host) \o "-" \o shell_name.build_rev
       /\ \E markers \in {StatedFields(args, FALSE)} :
            /\ markers[1] = "js"
            /\ markers[Len(markers)] = shell_name.build_rev
            /\ markers[Len(markers) - 1] = Lower(machine)
            /\ markers[Len(markers) - 2] = Lower(hostOS)
            /\ shell_name.name = Join(markers)
  /\ ScenarioA => shell_name.name = "js-dbg-optDisabled-64-linux-x86_64-abc123"

C14_Witness == ScenarioA /\ shell_name.name # ""

\* C15, as stated: the word-width marker is the first option field of the
\* shell type, before the debug and optimize-disabled markers.
C15_WidthMarkerFirst ==
  Named => shell_name.name = Join(StatedFields(args, TRUE))

\* C15, amended: the fields are js, debug, optimize-disabled, word width,
\* profiling-disabled, sanitizer, Valgrind, OOM-breakpoint, Intl-disabled,
\* ARM32-simulator, ARM64-simulator, host OS, CPU architecture.
C15_FieldOrder ==
  Named => shell_name.name = Join(StatedFields(args, FALSE))

\* A name with markers on both sides of the word width.
C15_Witness ==
  /\ Named
  /\ args.enableDbg
  /\ args.disableOpt
  /\ args.disableProfiling

\* C16: a second evaluation of compute_shell_name gives the string of the
\* first, whatever the OS release, the source tree and the --random switch
\* are: the name depends on the flags, platform.system(),
\* platform.machine() and the revision only.
C16_NameDeterminism ==
  Named =>
    \A rel \in Releases, rnd \in BOOLEAN, repo \in RepoDirs :
      compute_shell_name([args EXCEPT !.enableRandom = rnd, !.repo_dir = repo],
                         [Host EXCEPT !.release = rel],
                         shell_name.build_rev) = shell_name.name

\* A randomly generated option set was named on a WSL host.
C16_Witness ==
  /\ Named
  /\ args.enableRandom
  /\ ContainsMicrosoft(release)

\* The thirteen flags of an option set, and the ten that compute_shell_type
\* reads.
AllFlagValues(a) ==
  <<a.enable32, a.enableDbg, a.disableDbg, a.enableOpt, a.disableOpt,
    a.disableProfiling, a.enableAddressSanitizer, a.enableValgrind, a.runWithVg,
    a.enableOomBreakpoint, a.enableWithoutIntlApi, a.enableSimulatorArm32,
    a.enableSimulatorArm64>>

RenderedFlagValues(a) ==
  <<a.enable32, a.enableDbg, a.disableOpt, a.disableProfiling,
    a.enableAddressSanitizer, a.enableValgrind, a.enableOomBreakpoint,
    a.enableWithoutIntlApi, a.enableSimulatorArm32, a.enableSimulatorArm64>>

\* The command line of an option set.
TokensOf(a) ==
  {f \in Flags :
     CASE f = "--32" -> a.enable32
       [] f = "--enable-debug" -> a.enableDbg
       [] f = "--disable-debug" -> a.disableDbg
       [] f = "--enable-optimize" -> a.enableOpt
       [] f = "--disable-optimize" -> a.disableOpt
       [] f = "--disable-profiling" -> a.disableProfiling
       [] f = "--enable-address-sanitizer" -> a.enableAddressSanitizer
       [] f = "--enable-valgrind" -> a.enableValgrind
       [] f = "--run-with-valgrind" -> a.runWithVg
       [] f = "--enable-oom-breakpoint" -> a.enableOomBreakpoint
       [] f = "--without-intl-api" -> a.enableWithoutIntlApi
       [] f = "--enable-simulator=arm" -> a.enableSimulatorArm32
       [] f = "--enable-simulator=arm64" -> a.enableSimulatorArm64}

\* The option set whose command line differs from t in the flags f and g
\* (in one flag when f = g).
Differing(t, f, g) ==
  parse_args((t \ {f, g}) \cup ({f, g} \ t), args.enableRandom, args.repo_dir)

\* C17, as stated: on one host, an option set that differs from the named
\* one in one or two flags of the schema, whichever they are, gets a
\* different name.
C17_InjectiveAllFlags ==
  Named =>
    LET t == TokensOf(args)
    IN \A f, g \in Flags :
         LET o == Differing(t, f, g)
         IN /\ AllFlagValues(o) # AllFlagValues(args)
            /\ compute_shell_name(o, Host, shell_name.build_rev) # shell_name.name

\* C17, amended: on one host, an option set that differs from the named one
\* in one or two flags gets a different name exactly when one of the ten
\* rendered flags differs; option sets that differ only in --disable-debug,
\* --enable-optimize and --run-with-valgrind share their name.
C17_InjectiveRenderedFlags ==
  Named =>
    LET t == TokensOf(args)
    IN /\ parse_args(t, args.enableRandom, args.repo_dir) = args
       /\ \A f, g \in Flags :
            LET o == Differing(t, f, g)
            IN /\ AllFlagValues(o) # AllFlagValues(args)
               /\ (RenderedFlagValues(o) # RenderedFlagValues(args)) <=>
                    (compute_shell_name(o, Host, shell_name.build_rev) # shell_name.name)

\* The option set of the opt ASan test was named.
C17_Witness ==
  /\ Named
  /\ args.disableDbg
  /\ args.disableProfiling
  /\ args.enableAddressSanitizer

\* C18: on every host are_args_valid reports (False, non-empty reason) for
\* an option set with --enable-debug and --disable-debug, or with
\* --enable-optimize and --disable-optimize, or with --disable-optimize and
\* no --enable-debug; and gen_rnd_cfgs returns no such set.
HostIndependentlyInvalid(a) ==
  \/ a.enableDbg /\ a.disableDbg
  \/ a.enableOpt /\ a.disableOpt
  \/ a.disableOpt /\ ~a.enableDbg

C18_HostIndependentExclusions ==
  (Parsed /\ HostIndependentlyInvalid(args)) =>
     /\ ~args.enableRandom
     /\ valid[1] = FALSE
     /\ valid[2] # ""

C18_Witness ==
  /\ Parsed
  /\ args.disableOpt
  /\ ~args.enableDbg
  /\ hostOS = "Windows"
  /\ valid[1] = FALSE

\* C19: are_args_valid reports False for every option set with --32 on
\* Darwin, on an aarch64 machine and under a release string that contains
\* Microsoft; for --32 alone on Darwin the reason is the one about 32-bit
\* Mac binaries.
C19_No32BitHosts ==
  (Parsed /\ ~args.enableRandom /\ args.enable32) =>
     /\ (hostOS = "Darwin" \/ machine = "aarch64" \/ ContainsMicrosoft(release))
          => valid[1] = FALSE
     /\ (hostOS = "Darwin" /\ args = parse_args({"--32"}, FALSE, args.repo_dir))
          => valid = <<FALSE, "We are no longer going to ship 32-bit Mac binaries.">>

C19_Witness ==
  /\ Parsed
  /\ args = parse_args({"--32"}, FALSE, args.repo_dir)
  /\ hostOS = "Linux"
  /\ machine = "aarch64"
  /\ valid[1] = FALSE

\* C20: the option set gen_rnd_cfgs returns satisfies
\* are_args_valid(opts) == (True, ""); a candidate that does not is dropped
\* and the loop draws again.
C20_RandomOnlyValid ==
  /\ (Parsed /\ args.enableRandom) => are_args_valid(args, Host) = <<TRUE, "">>
  /\ (optpc = "rnd") => args = NoArgs

\* A set was returned after a candidate had been dropped.
C20_Witness ==
  /\ Parsed
  /\ args.enableRandom
  /\ discarded

\* A random option set was returned; rolls holds the draws of its round.
RandomReturned == Parsed /\ args.enableRandom /\ DOMAIN rolls = RandomizerOptions

\* C21: a randomizer option is selected exactly when the number drawn for
\* it is below its weight: with the draw 0 every option of positive weight
\* is selected and no option of weight 0, so an option of weight 0 is never
\* in a returned option set.
C21_ChanceThreshold ==
  (Parsed /\ args.enableRandom) =>
     /\ DOMAIN rolls = RandomizerOptions
     /\ \A name \in RandomizerOptions :
          /\ (name \in TokensOf(args)) <=> (rolls[name] < Weight(name))
          /\ rolls[name] = 0 => ((name \in TokensOf(args)) <=> (Weight(name) > 0))
          /\ Weight(name) <= 0 => name \notin TokensOf(args)

\* The draw was 0 for an option of weight 0 and for one of weight 0.5.
C21_Witness ==
  /\ RandomReturned
  /\ rolls["--enable-optimize"] = 0
  /\ rolls["--enable-debug"] = 0
  /\ args.enableDbg
  /\ ~args.enableOpt

\* C22: without --random, parse_shell_opts returns the option set with
\* exactly the flags that were given, whatever are_args_valid says about
\* it: nothing is dropped, no candidate is drawn, and the shell is then
\* named and built from that option set.
C22_ExplicitModeKeepsOptions ==
  (Parsed /\ ~args.enableRandom) =>
     /\ TokensOf(args) = build_options_str
     /\ valid = are_args_valid(args, Host)
     /\ ~discarded
     /\ rolls = <<>>
     /\ optpc = "parsed" => ENABLED ComputeShellName
     /\ Named => shell_name.name =
                   compute_shell_name(parse_args(build_options_str, FALSE, args.repo_dir),
                                      Host, shell_name.build_rev)

\* A shell was named for an option set that are_args_valid rejects.
C22_Witness ==
  /\ Named
  /\ ~args.enableRandom
  /\ valid[1] = FALSE
  /\ build_options_str = {"--32", "--disable-optimize"}
  /\ shell_name.name # ""

\* The step in which run() of p ends with the parse error of argparse.
ParseErrorStep(p) ==
  /\ pc[p] = "idle"
  /\ pc'[p] = "done"
  /\ result'[p] = "SystemExit"

\* C23: when parsing aborts with an unrecognized token, nothing has been
\* created: the step that raises the error creates no lock directory,
\* creates or changes no cache entry, constructs no shell and returns no
\* option set, and the failed call never held a lock.
C23_ParseErrorBeforeState ==
  [][\A p \in Procs :
       ParseErrorStep(p) =>
         /\ lockDir' = lockDir
         /\ holder' = holder
         /\ cache' = cache
         /\ treeRev' = treeRev
         /\ shell'[p] = NoShell
         /\ ~obs'[p].locked
         /\ args' = args
         /\ optpc' = optpc]_vars

\* The call of process 1 has ended with the parse error and there is
\* neither a lock directory nor a cache entry.
C23_Witness ==
  /\ result[1] = "SystemExit"
  /\ ~obs[1].locked
  /\ \A n \in RepoNames : ~lockDir[n]
  /\ \A n \in Revs : cache[n] = Absent

\* The exceptions with which run() reports a failed acquisition: the cached
\* failure and the compile failure (OSError), lock contention
\* (FileExistsError, an OSError), a failed hg, configure or file(1)
\* (CalledProcessError), a missing toolchain (FileNotFoundError) and the
\* verification mismatch (ValueError).
AcquisitionFailures ==
  {"OSError", "CalledProcessError", "FileNotFoundError", "ValueError"}

\* C24: main returns 0 when run() succeeds and 1 when run() ends with a
\* reported acquisition failure; no such failure leaves main as an
\* exception.
C24_MainExitCodes ==
  \A p \in Procs :
    pc[p] = "done" =>
      /\ result[p] = "0" => main(result[p]) = "0"
      /\ result[p] \in AcquisitionFailures => main(result[p]) = "1"

\* The directory an argument of ensure_cache_dir stands for.
BaseOf(base_dir) == IF base_dir = "" THEN "home" ELSE base_dir

\* C25: where the base is a directory, ensure_cache_dir returns
\* base/shell-cache and the path is a directory afterwards, whether it
\* existed or not; a further call, also after the directory was removed,
\* succeeds with the same path; and the call fails with an I/O error when
\* the path exists and is no directory.
C25_EnsureCacheDirIdempotent ==
  /\ \A base_dir \in BaseArgs :
       LET t == fsTree[BaseOf(base_dir)]
           r == ensure_cache_dir(base_dir, fsTree)
       IN /\ (t.base_dir = "dir" /\ t.cache_dir # "file") =>
               /\ r.raised = NoExc
               /\ r.cache_dir = <<BaseOf(base_dir), "shell-cache">>
               /\ r.fs[BaseOf(base_dir)].cache_dir = "dir"
               /\ ensure_cache_dir(base_dir, r.fs) = r
          /\ t.cache_dir = "file" =>
               /\ r.raised = "FileExistsError"
               /\ r.cache_dir = NoPath
               /\ r.fs = fsTree
  /\ \A i \in 1..Len(ensured) :
       LET c == ensured[i]
       IN /\ (fsTree[BaseOf(c.base_dir)].base_dir = "dir" /\ c.existed # "file") =>
               /\ c.raised = NoExc
               /\ c.cache_dir = <<BaseOf(c.base_dir), "shell-cache">>
          /\ c.existed = "file" => c.raised = "FileExistsError"
          /\ \A j \in 1..Len(ensured) :
               (BaseOf(ensured[j].base_dir) = BaseOf(c.base_dir)
                  /\ ensured[j].raised = NoExc /\ c.raised = NoExc)
                 => ensured[j].cache_dir = c.cache_dir

\* Two calls for "." succeeded with the same path; the directory did not
\* exist before either of them, so it was removed in between.
C25_Witness ==
  /\ Len(ensured) = 2
  /\ ensured[1] = [base_dir |-> ".", existed |-> "absent",
                   cache_dir |-> <<".", "shell-cache">>, raised |-> NoExc]
  /\ ensured[2] = ensured[1]
  /\ fsTree["."].cache_dir = "dir"

\* The step in which run() of p fails in LockDir.__enter__.
LockContentionStep(p) ==
  /\ pc[p] = "idle"
  /\ pc'[p] = "done"
  /\ result'[p] = "OSError"

\* C26: a run() call fails with lock contention only against a call on
\* the same source tree: no process that is inside its lock scope for
\* another tree path makes LockDir.__enter__ fail.
C26_TreesIndependent ==
  [][\A p \in Procs :
       LockContentionStep(p) =>
         \A q \in Procs :
           (Inside(q) /\ holder[get_lock_dir_path(shell[q].repo_dir)] = q)
             => shell[q].repo_dir = shell'[p].repo_dir]_vars


\* The steps of obtain_shell that work on the checked-out source.
BuildPcs == {"mkobjdir", "configure", "make", "smcompile", "verify", "envdump"}

\* C27: whether or not a revision was passed, the shell a process builds
\* is named after the changeset hash of the source in its tree, so that a
\* cache entry stands for one changeset.
C27_NameIsResolvedHash ==
  \A p \in Procs :
    pc[p] \in BuildPcs =>
      shell[p].name = name_no_ext(treeRev[shell[p].repo_dir])


\* C28: the binary is at its cache path only after verify_binary has
\* accepted it: while a process has not yet left verify_binary, the cache
\* entry of its shell holds no binary that a probe could take for a hit.
C28_BinaryAfterVerification ==
  \A p \in Procs :
    pc[p] \in {"mkobjdir", "configure", "make", "smcompile", "verify"} =>
      ~cache[shell[p].name].bin


\* The step of p from sm_compile back to make: the second run of make.
MakeRetryStep(p) == pc[p] = "smcompile" /\ pc'[p] = "make"

\* C29: within one acquisition hg update and configure run at most once,
\* make at most twice, and configure has run exactly once whenever make
\* has run; make is started again only after its first run, when that run
\* left no binary and its output showed that the compiler was killed.
C29_OomRetryBound ==
  /\ [](\A p \in Procs :
          /\ obs[p].make <= 2
          /\ obs[p].configure <= 1
          /\ obs[p].checkout <= 1
          /\ obs[p].make >= 1 => obs[p].configure = 1)
  /\ [][\A p \in Procs :
          MakeRetryStep(p) =>
            /\ obs[p].make = 1
            /\ ~cache[shell[p].name].compiled
            /\ out[p].oom]_vars

\* A second run of make has produced the binary that is now verified.
C29_Witness ==
  \E p \in Procs :
    /\ pc[p] = "verify"
    /\ obs[p].make = 2
    /\ obs[p].configure = 1


\* The properties of the binary that differ from what the options ask for.
WidthOf(a) == IF a.enable32 THEN "32" ELSE "64"
DetectedWidth == arch_of_binary(hostOS, binary.filetype)
Mismatches ==
  {x \in {"architecture", "debug", "asan", "profiling", "arm-simulator",
          "arm64-simulator"} :
     CASE x = "architecture" ->
            DetectedWidth.raised \/ DetectedWidth.arch # WidthOf(args)
       [] x = "debug" -> binary.debug # args.enableDbg
       [] x = "asan" -> binary.asan # args.enableAddressSanitizer
       [] x = "profiling" -> binary.profiling = args.disableProfiling
       [] x = "arm-simulator" ->
            /\ machine = "x86_64"
            /\ (binary.arm_simulator /\ args.enable32) # args.enableSimulatorArm32
       [] x = "arm64-simulator" ->
            /\ machine = "x86_64"
            /\ (binary.arm64_simulator /\ ~args.enable32)
                 # args.enableSimulatorArm64}

\* What the error for a single mismatching property names: the value found
\* and the value asked for.
MismatchError(x) ==
  CASE x = "architecture" -> <<x, DetectedWidth.arch, Str(args.enable32)>>
    [] x = "debug" -> <<x, Str(binary.debug), Str(args.enableDbg)>>
    [] x = "asan" -> <<x, Str(binary.asan), Str(args.enableAddressSanitizer)>>
    [] x = "profiling" -> <<x, Str(binary.profiling), Str(~args.disableProfiling)>>
    [] x = "arm-simulator" ->
         <<x, Str(binary.arm_simulator), Str(args.enableSimulatorArm32)>>
    [] x = "arm64-simulator" ->
         <<x, Str(binary.arm64_simulator), Str(args.enable32),
           Str(args.enableSimulatorArm64)>>

\* C30: verify_binary accepts a binary exactly when the detected width is
\* the requested one, reported debug and asan equal the options, reported
\* profiling differs from disableProfiling and, where platform.machine()
\* is x86_64, (arm-simulator and enable32) equals enableSimulatorArm32 and
\* (arm64-simulator and not enable32) equals enableSimulatorArm64.  A
\* single mismatching property (with a width that arch_of_binary returned)
\* makes it raise the error of that property, which names the value found
\* and the value asked for.
C30_VerifierPredicate ==
  verdict # NoVerdict =>
    /\ verdict.accepted <=> Mismatches = {}
    /\ \A x \in Mismatches :
         (Mismatches = {x} /\ ~DetectedWidth.raised) =>
           /\ ~verdict.accepted
           /\ verdict.error = MismatchError(x)

\* On an x86_64 host a binary without the ARM32 simulator, right in every
\* other respect, was rejected for a 32-bit simulator build.
C30_Witness ==
  /\ verdict # NoVerdict
  /\ machine = "x86_64"
  /\ args.enable32 /\ args.enableSimulatorArm32
  /\ Mismatches = {"arm-simulator"}
  /\ ~verdict.accepted


\* -------------------------------------- further rules of are_args_valid
\* parse_shell_opts has parsed an explicit command line; valid holds what
\* are_args_valid returned for it.
Checked == Parsed /\ ~args.enableRandom

\* C31: on every host are_args_valid returns False for an option set with
\* the ARM32 simulator and no --32, and for one with the ARM64 simulator
\* and --32; and for any simulator on Windows and on aarch64 Linux.
C31_SimulatorWordWidth ==
  Checked =>
    /\ (args.enableSimulatorArm32 /\ ~args.enable32) => valid[1] = FALSE
    /\ (args.enableSimulatorArm64 /\ args.enable32) => valid[1] = FALSE
    /\ ((args.enableSimulatorArm32 \/ args.enableSimulatorArm64)
          /\ (hostOS = "Windows" \/ (hostOS = "Linux" /\ machine = "aarch64")))
         => valid[1] = FALSE

\* The ARM32 simulator alone, on x86_64 Linux: rejected for the word width.
C31_Witness ==
  /\ Checked
  /\ args = parse_args({"--enable-simulator=arm"}, FALSE, args.repo_dir)
  /\ hostOS = "Linux"
  /\ machine = "x86_64"
  /\ valid = <<FALSE, "The 32-bit ARM simulator builds are only for 32-bit binaries.">>

\* C32: on every host are_args_valid returns False for every option set
\* with --enable-valgrind, whatever else is set, and for every option set
\* with --run-with-valgrind.
C32_ValgrindDisabled ==
  (Checked /\ (args.enableValgrind \/ args.runWithVg)) => valid[1] = FALSE

\* Valgrind with the optimized build it once asked for, on x86_64 Linux.
C32_Witness ==
  /\ Checked
  /\ args = parse_args({"--enable-valgrind", "--run-with-valgrind",
                        "--enable-optimize"}, FALSE, args.repo_dir)
  /\ hostOS = "Linux"
  /\ machine = "x86_64"
  /\ valid[1] = FALSE


\* C39: on every host no option set are_args_valid accepts, parsed from a
\* command line or returned by gen_rnd_cfgs, enables both simulators, or
\* the address sanitizer together with --32 or with the ARM32 simulator.
C39_DerivedExclusions ==
  (Parsed /\ are_args_valid(args, Host)[1]) =>
     /\ ~(args.enableSimulatorArm32 /\ args.enableSimulatorArm64)
     /\ ~(args.enableAddressSanitizer /\ args.enable32)
     /\ ~(args.enableAddressSanitizer /\ args.enableSimulatorArm32)

\* An accepted 32-bit ARM32 simulator build: it has neither the other
\* simulator nor the address sanitizer.
C39_Witness ==
  /\ Checked
  /\ valid = <<TRUE, "">>
  /\ args.enable32
  /\ args.enableSimulatorArm32
  /\ ~args.enableAddressSanitizer
  /\ ~args.enableSimulatorArm64


\* C34: when parse_shell_opts is called with --random and -R <dir>, the
\* option set it returns has repo_dir equal to the directory given.
C34_RepoSurvivesRandom ==
  (Parsed /\ args.enableRandom /\ repo_arg # NoRepo) => args.repo_dir = repo_arg


\* C38: whatever is drawn, the option set gen_rnd_cfgs returns has
\* disableDbg, enableOpt, enableValgrind, runWithVg, enableOomBreakpoint
\* and enableWithoutIntlApi false and enableRandom true, and its
\* build_options_str lists exactly the flags that are set.
C38_NeverRandomFlags ==
  (Parsed /\ args.enableRandom) =>
     /\ ~args.disableDbg
     /\ ~args.enableOpt
     /\ ~args.enableValgrind
     /\ ~args.runWithVg
     /\ ~args.enableOomBreakpoint
     /\ ~args.enableWithoutIntlApi
     /\ build_options_str = TokensOf(args)

\* A returned set with flags, after a round in which Valgrind was drawn
\* with the smallest number and the candidate was dropped.
C38_Witness ==
  /\ Parsed
  /\ args.enableRandom
  /\ discarded
  /\ args.enableDbg
  /\ args.disableOpt
  /\ build_options_str # {}


\* C33: on every host the default option set passes are_args_valid, and
\* so, the draws being fair, the loop of gen_rnd_cfgs that was entered
\* returns an option set.
C33_RandomTerminates ==
  /\ [](are_args_valid(NoArgs, Host) = <<TRUE, "">>)
  /\ (optpc = "rnd") ~> (Parsed /\ args.enableRandom)

\* The default option set was returned after a candidate had been dropped.
C33_Witness ==
  /\ RandomReturned
  /\ discarded
  /\ build_options_str = {}
  /\ TokensOf(args) = {}


\* C35: a tree that exists is gone after its removal with the read-only
\* handler, whether or not it holds read-only files: the entry directory
\* after the rmtree of the except KeyboardInterrupt clause, objdir-js after
\* the rmtree of the except (CalledProcessError, OSError) clause.
C35_PurgeToleratesReadOnly ==
  [][ \A p \in Procs :
        LET n == shell[p].name
        IN /\ (pc[p] = "handler_ki" /\ pc'[p] = "unlock" /\ cache[n].dir)
                => ~cache'[n].dir
           /\ (pc[p] = "handler_os" /\ pc'[p] = "unlock" /\ cache[n].objdir)
                => ~cache'[n].objdir ]_vars


\* Process q has created the entry directory of its shell and has not yet
\* left the try block of obtain_shell.
Building(q) == pc[q] \in {"checkout"} \cup BuildPcs \cup {"pageheap"}

\* C36: while a process is between creating the entry directory and the
\* end of its build, no other process that probes the same shell name
\* removes that directory.
C36_NoConcurrentPurge ==
  [][ \A p, q \in Procs :
        (/\ p # q
         /\ Building(q)
         /\ shell[q].name = shell[p].name
         /\ pc[p] = "obtain"
         /\ pc'[p] \notin {"obtain", "killed"})
        => ObtainBranch(cache[shell[p].name]) # "purge" ]_vars


\* C37: a run() that finds the lock directory of its tree fails and
\* changes neither a cache entry nor a tree nor a lock directory; a lock
\* directory is removed by nothing but the scope exit of the process that
\* created it; and as long as the directory is there, every run() for the
\* tree fails in the same way.
C37_FailedLockNoEffect ==
  [][ /\ \A p \in Procs :
           LockContentionStep(p) =>
             /\ lockDir[get_lock_dir_path(shell'[p].repo_dir)]
             /\ lockDir' = lockDir
             /\ holder' = holder
             /\ cache' = cache
             /\ hist' = hist
             /\ treeRev' = treeRev
      /\ \A l \in RepoNames :
           (lockDir[l] /\ ~lockDir'[l]) =>
             \E q \in Procs :
               /\ holder[l] = q
               /\ pc[q] = "unlock"
               /\ pc'[q] = "done"
      /\ \A p \in Procs :
           (/\ pc[p] = "idle"
            /\ pc'[p] # "idle"
            /\ result'[p] # "SystemExit"
            /\ lockDir[get_lock_dir_path(shell'[p].repo_dir)])
           => LockContentionStep(p) ]_vars

\* The process that created the lock directory was killed, a later call
\* for the tree was turned away, the directory is still there and nothing
\* is in the cache.
C37_Witness ==
  \E p, q \in Procs :
    /\ p # q
    /\ pc[q] = "killed"
    /\ holder["mozilla-central"] = q
    /\ lockDir["mozilla-central"]
    /\ pc[p] = "done"
    /\ result[p] = "OSError"
    /\ ~obs[p].locked
    /\ \A n \in Revs : cache[n] = Absent

====
